---- MODULE Spec2Model ----
(***************************************************************************)
(* NoiseShield AI (src/app.py): noise injection, the perturbed ensemble    *)
(* of logistic sub-models, the variance-gated "interference" aggregation   *)
(* and the per-domain analysis runs with their session bookkeeping.        *)
(*                                                                         *)
(* Numbers.  A numpy float is a fixed-point integer in units of 1/One      *)
(* (One = 10^6).  Sums, products, means, variances, weights and the        *)
(* combined probability are carried exactly (as integers or as a           *)
(* numerator over a denominator); a product or a square that exceeds the   *)
(* machine integers of the checker is carried as a two-limb number         *)
(* <<hi, lo>> = hi * One + lo.  Only the transcendental functions          *)
(* (np.exp, the logistic sigmoid) are rounded, to 1/One.                   *)
(***************************************************************************)
EXTENDS Integers, Sequences, FiniteSets, TLC

\* ------------------------------------------------------------------------
\* Fixed-point and two-limb arithmetic
\* ------------------------------------------------------------------------

\* One limb step: One = Unit * Unit
Unit == 1000

\* The fixed-point value of 1.0
One == Unit * Unit

Abs(a) == IF a < 0 THEN -a ELSE a

Sgn(a) == IF a < 0 THEN -1 ELSE IF a > 0 THEN 1 ELSE 0

\* a * b for naturals a, b, as the two-limb number <<hi, lo>>
WMul(a, b) ==
  LET a1 == a \div Unit
      a0 == a % Unit
      b1 == b \div Unit
      b0 == b % Unit
      mid == a1 * b0 + a0 * b1
      low == (mid % Unit) * Unit + a0 * b0
  IN  << a1 * b1 + (mid \div Unit) + (low \div One), low % One >>

WAdd(x, y) == << x[1] + y[1] + (x[2] + y[2]) \div One, (x[2] + y[2]) % One >>

\* x * k for a small natural k
WScale(x, k) == << x[1] * k + (x[2] * k) \div One, (x[2] * k) % One >>

WLe(x, y) == x[1] < y[1] \/ (x[1] = y[1] /\ x[2] <= y[2])

WLt(x, y) == x[1] < y[1] \/ (x[1] = y[1] /\ x[2] < y[2])

\* floor(x / d) and x mod d of the two-limb x, for 0 < d <= 2 * 10^7 and x / d < 2^31
WDivMod(x, d) ==
  LET q0 == x[1] \div d
      r0 == x[1] % d
      t1 == r0 * 100 + (x[2] \div 10000)
      t2 == (t1 % d) * 100 + ((x[2] \div 100) % 100)
      t3 == (t2 % d) * 100 + (x[2] % 100)
  IN  [q |-> ((q0 * 100 + (t1 \div d)) * 100 + (t2 \div d)) * 100 + (t3 \div d),
       r |-> t3 % d]

\* floor(a * b / One) for fixed-point naturals: the product of two floats
MulFix(a, b) == WMul(a, b)[1]

\* the product of two signed fixed-point numbers, rounded towards zero
SMulFix(a, b) == Sgn(a) * Sgn(b) * MulFix(Abs(a), Abs(b))

\* a / b rounded towards zero, for a signed a and b > 0
SDiv(a, b) == Sgn(a) * (Abs(a) \div b)

\* ------------------------------------------------------------------------
\* np.exp and the logistic sigmoid (scipy expit inside predict_proba)
\* ------------------------------------------------------------------------

\* terms of the Taylor series of exp
TaylorTerms == 12

\* exp(-1) in fixed point
EInv == 367879

RECURSIVE ExpSeries(_, _, _, _)
\* sum_{j >= k} (-f)^j / j!, given term = f^(k-1) / (k-1)!
ExpSeries(f, term, k, acc) ==
  IF k > TaylorTerms \/ term = 0 THEN acc
  ELSE LET t == MulFix(term, f) \div k
       IN  ExpSeries(f, t, k + 1, IF k % 2 = 1 THEN acc - t ELSE acc + t)

RECURSIVE EInvPow(_)
EInvPow(k) == IF k = 0 THEN One ELSE MulFix(EInvPow(k - 1), EInv)

\* np.exp(-x) for a fixed-point x >= 0
ExpNeg(x) ==
  IF x \div One > 20 THEN 0
  ELSE MulFix(EInvPow(x \div One), ExpSeries(x % One, One, 1, One))

\* 1 / (1 + exp(-z)) for a signed fixed-point z
Sigmoid(z) ==
  LET v  == One + ExpNeg(Abs(z))
      q1 == (One * Unit) \div v
      r1 == (One * Unit) % v
      p  == q1 * Unit + ((r1 * Unit) \div v)
  IN  IF z >= 0 THEN p ELSE One - p

\* ------------------------------------------------------------------------
\* ensemble_predict_proba, lines 430-436: the aggregation of the member
\* probabilities (probs is the array of the members' predict_proba)
\* ------------------------------------------------------------------------

\* 1 / 0.02, the variance threshold of the two regimes
VarThreshInv == 50

\* 1 / (2 * 0.0025), the kernel's bandwidth term
TwoBwInv == 200

RECURSIVE SumSeq(_)
SumSeq(s) == IF s = << >> THEN 0 ELSE s[1] + SumSeq(Tail(s))

RECURSIVE WSumSeq(_)
WSumSeq(s) == IF s = << >> THEN << 0, 0 >> ELSE WAdd(s[1], WSumSeq(Tail(s)))

\* len * (probs[i] - probs.mean()), an integer
Dev(probs, i) == Len(probs) * probs[i] - SumSeq(probs)

\* (len * (probs[i] - probs.mean()))^2, two-limb
SqDev(probs, i) == WMul(Abs(Dev(probs, i)), Abs(Dev(probs, i)))

\* the sample variance np.var(probs, ddof=1) in place of the population variance
VarianceDdof1(probs) ==
  [num |-> WSumSeq([i \in 1..Len(probs) |-> SqDev(probs, i)]),
   den |-> Len(probs) * Len(probs) * (Len(probs) - 1)]

\* np.var(probs), the population variance: num / (den * One^2)
Variance(probs) ==
  [num |-> WSumSeq([i \in 1..Len(probs) |-> SqDev(probs, i)]),
   den |-> Len(probs) * Len(probs) * Len(probs)]

\* the regime test written var >= 0.02
HighVarGe(var) == WLe(<< var.den * (One \div VarThreshInv), 0 >>, var.num)

\* var > 0.02, that is num > den * One^2 / 50
HighVar(var) == WLt(<< var.den * (One \div VarThreshInv), 0 >>, var.num)

\* the kernel centred on 0.5 in place of the mean
CenteredOnHalf(probs, i) ==
  ExpNeg(WScale(WMul(Abs(2 * probs[i] - One), Abs(2 * probs[i] - One)),
                TwoBwInv)[1] \div 4)

\* the kernel centred on the first member in place of the mean
CenteredOnFirst(probs, i) ==
  ExpNeg(WScale(WMul(Abs(probs[i] - probs[1]), Abs(probs[i] - probs[1])),
                TwoBwInv)[1])

\* np.exp(-(probs - probs.mean())**2 / (2*0.0025)), element i
Centered(probs, i) ==
  ExpNeg(WScale(SqDev(probs, i), TwoBwInv)[1] \div (Len(probs) * Len(probs)))

\* np.ones_like(probs) / len(probs): weight i is num[i] / den
UniformWeights(probs) == [num |-> [i \in 1..Len(probs) |-> 1], den |-> Len(probs)]

\* the kernel values used as weights without the division by their sum
NormalizeNoSum(centered) == [num |-> centered, den |-> One]

\* centered / centered.sum(): weight i is num[i] / den
Normalize(centered) == [num |-> centered, den |-> SumSeq(centered)]

\* w @ probs with w = num / den: the probability num / den in units of 1/One
Dot(w, probs) ==
  [num |-> WSumSeq([i \in 1..Len(probs) |-> WMul(w.num[i], probs[i])]),
   den |-> w.den]

\* the body of ensemble_predict_proba after probs is computed
Aggregate(probs) ==
  LET var == Variance(probs)
      w   == IF HighVar(var) THEN UniformWeights(probs)
             ELSE Normalize([i \in 1..Len(probs) |-> Centered(probs, i)])
  IN  [p |-> Dot(w, probs), probs |-> probs, w |-> w, var |-> var]

\* ------------------------------------------------------------------------
\* seed_rng and inject_noise, lines 403-409.  The heap is the sequence of the
\* ndarrays allocated so far; an array is known by its index (its identity).
\* ------------------------------------------------------------------------

\* the seed of seed_rng() when none is given
DefaultSeed == 42

\* the seed inject_noise uses when no generator is supplied
NoiseSeed == 123

\* np.random.default_rng(seed): a fresh generator at the start of its stream
seed_rng(seed) == [seed |-> seed, pos |-> 0]

\* draw number i of the standard-normal stream of a seed: a fixed function of
\* (seed, i) standing for the PCG64 stream, with values in [-3.003, 3.003]
StdNormal(seed, i) ==
  ((((seed + 1) * 7919 + (i + 1) * 104729) % 6007) - 3003) * Unit

\* rng.normal(0, scale, size=len): the next len draws, scaled
NormalDraws(rng, scale, len) ==
  [i \in 1..len |-> SMulFix(scale, StdNormal(rng.seed, rng.pos + i - 1))]

\* returning X itself where a copy is meant
ArrayNoCopy(h, x) == [heap |-> h, ref |-> x]

\* X.copy(): a new array with the contents of X
ArrayCopy(h, x) == [heap |-> Append(h, h[x]), ref |-> Len(h) + 1]

\* inject_noise(X, pct, rng): rng is << >> for None, << g >> for a generator g.
\* Returns the heap, the identity of the returned array and the generator
\* argument as the call leaves it.
\* a default generator made once and kept between calls: its position is
\* the number of values the earlier calls allocated
InjectNoiseSharedDefault(h, x, pct, rng) ==
  IF pct <= 0 THEN
    [heap |-> ArrayCopy(h, x).heap, ref |-> ArrayCopy(h, x).ref, rng |-> rng]
  ELSE
    LET g     == IF rng = << >> THEN [seed |-> NoiseSeed, pos |-> Len(h)]
                 ELSE rng[1]
        scale == (pct * One) \div 100
        z     == NormalDraws(g, scale, Len(h[x]))
        out   == [i \in 1..Len(h[x]) |-> SMulFix(h[x][i], One + z[i])]
    IN  [heap |-> Append(h, out), ref |-> Len(h) + 1,
         rng |-> IF rng = << >> THEN rng
                 ELSE << [g EXCEPT !.pos = @ + Len(h[x])] >>]

inject_noise(h, x, pct, rng) ==
  IF pct <= 0 THEN
    [heap |-> ArrayCopy(h, x).heap, ref |-> ArrayCopy(h, x).ref, rng |-> rng]
  ELSE
    LET g     == IF rng = << >> THEN seed_rng(NoiseSeed) ELSE rng[1]
        scale == (pct * One) \div 100
        z     == NormalDraws(g, scale, Len(h[x]))
        out   == [i \in 1..Len(h[x]) |-> SMulFix(h[x][i], One + z[i])]
    IN  [heap |-> Append(h, out), ref |-> Len(h) + 1,
         rng |-> IF rng = << >> THEN rng
                 ELSE << [g EXCEPT !.pos = @ + Len(h[x])] >>]

\* ------------------------------------------------------------------------
\* make_submodels_from, lines 411-426, and predict_proba of a pipeline.
\* A pipeline (StandardScaler + LogisticRegression) is the record of the
\* identities of its arrays: mean, scale, coef, intercept, classes.
\* ------------------------------------------------------------------------

\* eps when the caller gives none (0.03)
DefaultEps == 30000

\* n when the caller gives none
DefaultN == 3

\* the perturbation factor centred on the wrong member
FactorOffCentre(k, eps) == One + k * eps

\* 1 + (k-1)*eps
Factor(k, eps) == One + (k - 1) * eps

\* array * factor, a new array
ScaleArr(arr, f) == [i \in 1..Len(arr) |-> SMulFix(arr[i], f)]

\* the sub-model with the intercept left unperturbed
SubModelBiasKept(h, base, eps, k) ==
  [heap |-> h \o << ScaleArr(h[base.coef], Factor(k, eps)),
                    h[base.intercept], h[base.mean], h[base.scale] >>,
   pipe |-> [classes |-> base.classes, coef |-> Len(h) + 1,
             intercept |-> Len(h) + 2, mean |-> Len(h) + 3,
             scale |-> Len(h) + 4]]

\* one pass of the loop scaling the baseline's own coef_ and intercept_
\* arrays in place (lr.coef_ *= factor) and handing them to the member
SubModelInPlace(h, base, eps, k) ==
  [heap |-> [h EXCEPT ![base.coef] = ScaleArr(@, Factor(k, eps)),
                      ![base.intercept] = ScaleArr(@, Factor(k, eps))]
            \o << h[base.mean], h[base.scale] >>,
   pipe |-> [classes |-> base.classes, coef |-> base.coef,
             intercept |-> base.intercept, mean |-> Len(h) + 1,
             scale |-> Len(h) + 2]]

\* one pass of the loop with the scaler's arrays assigned without .copy()
SubModelSharedScaler(h, base, eps, k) ==
  [heap |-> h \o << ScaleArr(h[base.coef], Factor(k, eps)),
                    ScaleArr(h[base.intercept], Factor(k, eps)) >>,
   pipe |-> [classes |-> base.classes, coef |-> Len(h) + 1,
             intercept |-> Len(h) + 2, mean |-> base.mean,
             scale |-> base.scale]]

\* one pass of the loop, lines 416-425: lr_k shares the baseline's classes_
\* array, gets new coef_ and intercept_ arrays (the products) and sits behind
\* a new scaler whose mean_ and scale_ are copies of the baseline's
SubModel(h, base, eps, k) ==
  [heap |-> h \o << ScaleArr(h[base.coef], Factor(k, eps)),
                    ScaleArr(h[base.intercept], Factor(k, eps)),
                    h[base.mean], h[base.scale] >>,
   pipe |-> [classes |-> base.classes, coef |-> Len(h) + 1,
             intercept |-> Len(h) + 2, mean |-> Len(h) + 3,
             scale |-> Len(h) + 4]]

RECURSIVE BuildSubs(_, _, _, _, _, _)
\* for k in range(n): subs.append(pipe_k)
BuildSubs(h, base, eps, n, k, subs) ==
  IF k >= n THEN [heap |-> h, subs |-> subs]
  ELSE BuildSubs(SubModel(h, base, eps, k).heap, base, eps, n, k + 1,
                 Append(subs, SubModel(h, base, eps, k).pipe))

\* make_submodels_from(base_lr, eps=0.03, n=3); an argument is << >> when the
\* caller leaves it out and << value >> when it is given
make_submodels_from(h, base, epsArg, nArg) ==
  BuildSubs(h, base,
            IF epsArg = << >> THEN DefaultEps ELSE epsArg[1],
            IF nArg = << >> THEN DefaultN ELSE nArg[1],
            0, << >>)

\* StandardScaler.transform: (x - mean_) / scale_, element j
Standardize(h, pipe, x, j) ==
  Sgn(x[j] - h[pipe.mean][j])
    * WDivMod(<< Abs(x[j] - h[pipe.mean][j]), 0 >>, h[pipe.scale][j]).q

\* LogisticRegression.decision_function: coef_ . x_std + intercept_
Score(h, pipe, x) ==
  SumSeq([j \in 1..Len(x) |-> SMulFix(h[pipe.coef][j], Standardize(h, pipe, x, j))])
    + h[pipe.intercept][1]

\* pipe.predict_proba(x)[0, 1]
predict_proba(h, pipe, x) == Sigmoid(Score(h, pipe, x))

\* ensemble_predict_proba(submodels, X_row)
ensemble_predict_proba(h, subs, x) ==
  Aggregate([k \in 1..Len(subs) |-> predict_proba(h, subs[k], x)])

\* ------------------------------------------------------------------------
\* The decision rule and the helpers of the analysis handlers
\* ------------------------------------------------------------------------

\* eps at every call site of make_submodels_from (0.04)
RunEps == 40000

\* the threshold test written p_ens > 0.5
PositiveClassStrict(p) == WLt(<< p.den, 0 >>, WScale(p.num, 2))

\* p_ens >= 0.5 for the probability p.num / p.den (in units of 1/One)
PositiveClass(p) == WLe(<< p.den, 0 >>, WScale(p.num, 2))

\* 10^4 * p rounded to the nearest integer, a tie going to the even one
RoundHalfEven(p) ==
  LET d == WDivMod(p.num, p.den)
      c == d.q \div 100
      f == d.q % 100
  IN  IF f > 50 \/ (f = 50 /\ d.r > 0) THEN c + 1
      ELSE IF f = 50 /\ c % 2 = 1 THEN c + 1
      ELSE c

\* the confidence taken as that of the reported label, max(p, 1 - p)
ConfidenceOfLabel(p) ==
  IF PositiveClass(p) THEN RoundHalfEven(p) ELSE 100 * 100 - RoundHalfEven(p)

\* round(p_ens * 100, 2) in hundredths of a percent
Round2(p) == RoundHalfEven(p)

\* float((r[d] or {}).get("confidence", 0.0)), in hundredths of a percent
ConfOf(res, d) == IF res[d] = << >> THEN 0 ELSE res[d][1].confidence

\* the mean taken over the domains that have a result
OverallOfRunDomains(res) ==
  LET sum == ConfOf(res, "Soil") + ConfOf(res, "Health") + ConfOf(res, "Water")
      cnt == Cardinality({ d \in DOMAIN res : res[d] # << >> })
      den == 10 * (IF cnt = 0 THEN 1 ELSE cnt)
  IN  IF 2 * (sum % den) > den \/ (2 * (sum % den) = den /\ (sum \div den) % 2 = 1)
      THEN sum \div den + 1 ELSE sum \div den

\* round((soil_conf + health_conf + water_conf) / 3, 1) in tenths of a
\* percent, a tie going to the even tenth
Overall(res) ==
  LET sum == ConfOf(res, "Soil") + ConfOf(res, "Health") + ConfOf(res, "Water")
  IN  IF sum % 30 > 15 \/ (sum % 30 = 15 /\ (sum \div 30) % 2 = 1)
      THEN sum \div 30 + 1 ELSE sum \div 30

\* the status line of the dashboard, overall in tenths of a percent
Status(overall) ==
  IF overall >= 80 * 10 THEN "Excellent"
  ELSE IF overall >= 50 * 10 THEN "Moderate"
  ELSE "Needs Work"

\* what the dashboard tab shows for the session's results
Dashboard(res) == [overall |-> Overall(res), status |-> Status(Overall(res))]

\* the result of a run stored as the one result of the session
StoreResultEverywhere(res, d, a) ==
  [e \in DOMAIN res |->
     << [confidence |-> a.conf, prob |-> a.ens.p, label |-> a.label] >>]

\* st.session_state["results"][d] = {...}: a is what the handler computed
StoreResult(res, d, a) ==
  [res EXCEPT ![d] =
     << [confidence |-> a.conf, prob |-> a.ens.p, label |-> a.label] >>]

\* the memory test written conf > 50
DecentStrict(conf) == conf > 50 * 100

\* conf >= 50, conf in hundredths of a percent
Decent(conf) == conf >= 50 * 100

\* the first three entries kept, hist[:3]
FirstThree(hist) == SubSeq(hist, 1, IF Len(hist) > 3 THEN 3 ELSE Len(hist))

\* hist[-3:]
LastThree(hist) ==
  SubSeq(hist, IF Len(hist) > 3 THEN Len(hist) - 2 ELSE 1, Len(hist))

\* the labels of the English table, lines 115-120
PosLabel(d) ==
  CASE d = "Soil" -> "Nutrient Deficient"
    [] d = "Health" -> "Possible Condition"
    [] d = "Water" -> "Contaminated"

NegLabel(d) ==
  CASE d = "Soil" -> "Fertile"
    [] d = "Health" -> "Healthy"
    [] d = "Water" -> "Safe"

RECURSIVE InsertByMagnitude(_, _)
\* insert e into a list kept in decreasing order of |contribution|
InsertByMagnitude(e, s) ==
  IF s = << >> THEN << e >>
  ELSE IF Abs(s[1][2]) >= Abs(e[2]) THEN << s[1] >> \o InsertByMagnitude(e, Tail(s))
  ELSE << e >> \o s

RECURSIVE SortByMagnitude(_)
SortByMagnitude(s) ==
  IF s = << >> THEN << >>
  ELSE InsertByMagnitude(s[Len(s)], SortByMagnitude(SubSeq(s, 1, Len(s) - 1)))

\* linear_contribs(pipe, x_row, feature_names): (feature, coef * x_std) in
\* decreasing order of magnitude
linear_contribs(h, pipe, x) ==
  SortByMagnitude([j \in 1..Len(x) |->
     << j, SMulFix(h[pipe.coef][j], Standardize(h, pipe, x, j)) >>])

\* the arrays of a pipeline, by value
PipeValues(h, pipe) ==
  [coef |-> h[pipe.coef], intercept |-> h[pipe.intercept],
   mean |-> h[pipe.mean], scale |-> h[pipe.scale], classes |-> h[pipe.classes]]

\* what one analysis handler computes before it touches st.session_state
\* (lines 530-531 and 549-554, 575): d the domain, x0 the widget values, pct
\* the noise slider
Analysis(h, pipe, d, x0, pct) ==
  LET nz   == inject_noise(Append(h, x0), Len(h) + 1, pct, << >>)
      xn   == nz.heap[nz.ref]
      sb   == make_submodels_from(nz.heap, pipe, << RunEps >>, << >>)
      ens  == ensemble_predict_proba(sb.heap, sb.subs, xn)
  IN  [dom |-> d, x0 |-> nz.heap[Len(h) + 1], pct |-> pct, xn |-> xn,
       p_lr |-> predict_proba(nz.heap, pipe, xn),
       members |-> [k \in 1..Len(sb.subs) |-> PipeValues(sb.heap, sb.subs[k])],
       ens |-> ens,
       label |-> IF PositiveClass(ens.p) THEN PosLabel(d) ELSE NegLabel(d),
       conf |-> Round2(ens.p),
       expl |-> linear_contribs(sb.heap, pipe, xn),
       heap |-> SubSeq(sb.heap, 1, Len(h))]

\* levels of the stability tab, line 829
Levels == << 0, 20, 40, 60, 80, 100 >>

\* robustness_curve(pipe_base, subs, x_row, noise_levels), lines 446-453
robustness_curve(h, pipe, subs, x, levels) ==
  LET xn(nl) == LET r == inject_noise(Append(h, x), Len(h) + 1, nl, << >>)
                IN  r.heap[r.ref]
  IN  [base |-> [i \in 1..Len(levels) |-> predict_proba(h, pipe, xn(levels[i]))],
       ens  |-> [i \in 1..Len(levels) |->
                   ensemble_predict_proba(h, subs, xn(levels[i])).p]]

\* one domain of the stability tab, lines 832-833, 836-837, 840-841
StabilityOf(h, pipe, probe) ==
  LET sb == make_submodels_from(h, pipe, << RunEps >>, << >>)
  IN  [members |-> [k \in 1..Len(sb.subs) |-> PipeValues(sb.heap, sb.subs[k])],
       curve |-> robustness_curve(sb.heap, pipe, sb.subs, probe, Levels),
       heap |-> SubSeq(sb.heap, 1, Len(h))]

\* ------------------------------------------------------------------------
\* State
\* ------------------------------------------------------------------------

\* the largest number of member probabilities handed to the aggregation
MaxCount == 3

\* the member probabilities tried are the multiples of 1 / GridSteps
GridSteps == 10

\* the largest number of inject_noise calls in one behaviour of SpecNoise
MaxCalls == 2

ProbGrid == { (k * One) \div GridSteps : k \in 0..GridSteps }

ProbLists == UNION { [1..n -> ProbGrid] : n \in 1..MaxCount }

\* the feature vectors tried
NoiseVectors ==
  { << One >>, << 6500000, 40 * One >>, << 0, -2 * One, 250000 >> }

\* the noise percentages tried (the slider gives 0..100; the function takes any)
NoisePcts == { -5, 0, 20, 100 }

\* the value a caller writes into an array it was handed
Scribble == 31 * One

VARIABLES
  probsIn,    \* ensemble_predict_proba: the member probabilities
  aggOut,     \* ensemble_predict_proba: << >> or << the returned tuple >>
  heap,       \* the ndarrays allocated so far
  noiseLog,   \* the inject_noise calls made: arguments and returned array
  callerRng,  \* a generator the caller owns and may pass to inject_noise
  pipes,      \* the fitted baseline pipelines, by name
  build,      \* make_submodels_from: << >> or << the call and its result >>
  ensOut,     \* << >> or << the predictions made with the built ensemble >>
  mode,       \* which part of the program the behaviour exercises
  results,    \* st.session_state["results"]
  history,    \* st.session_state["history"]
  last_stable, \* st.session_state["last_stable"]
  runs,       \* the number of analysis runs so far
  lastRun,    \* << >> or << what the latest analysis handler computed >>
  runLog,     \* the analysis runs so far: domain, inputs and outcome of each
  dash,       \* << >> or << what the dashboard tab shows >>
  stab        \* << >> or << what the stability tab computed >>

vars == << probsIn, aggOut, heap, noiseLog, callerRng, pipes, build, ensOut,
           mode, results, history, last_stable, runs, lastRun, runLog, dash, stab >>

varsAgg == << probsIn, aggOut >>

varsNoise == << noiseLog, callerRng >>

varsEns == << build, ensOut >>

varsSession == << results, history, last_stable >>

varsApp == << varsSession, runs, lastRun, runLog, dash, stab >>

IdleAgg == probsIn = << >> /\ aggOut = << >>

IdleNoise == noiseLog = << >> /\ callerRng = seed_rng(DefaultSeed)

IdleEns == build = << >> /\ ensOut = << >>

IdleApp ==
  /\ results = << >>
  /\ history = << >>
  /\ last_stable = << >>
  /\ runs = 0
  /\ lastRun = << >>
  /\ runLog = << >>
  /\ dash = << >>
  /\ stab = << >>

\* ------------------------------------------------------------------------
\* The aggregation alone, on every list of member probabilities of the grid
\* ------------------------------------------------------------------------

InitAgg ==
  /\ mode = "aggregate"
  /\ probsIn \in ProbLists
  /\ aggOut = << >>
  /\ heap = << >>
  /\ pipes = << >>
  /\ IdleNoise
  /\ IdleEns
  /\ IdleApp

CallAggregate ==
  /\ mode = "aggregate"
  /\ aggOut = << >>
  /\ aggOut' = << Aggregate(probsIn) >>
  /\ UNCHANGED << mode, probsIn, heap, pipes, varsNoise, varsEns, varsApp >>

NextAgg == CallAggregate

SpecAgg == InitAgg /\ [][NextAgg]_vars

\* members of the lists aggregated in two orders
MaxPermCount == 3

\* the member probabilities of those lists
PermGrid == { 0, 100000, 400000, 500000, 550000, 900000 }

\* the orders of n members
Perms(n) == { f \in [1..n -> 1..n] : \A i \in 1..n : \E j \in 1..n : f[j] = i }

InitPerm ==
  /\ mode = "permute"
  /\ probsIn \in UNION { [1..n -> PermGrid] : n \in 1..MaxPermCount }
  /\ aggOut = << >>
  /\ heap = << >>
  /\ pipes = << >>
  /\ IdleNoise
  /\ IdleEns
  /\ IdleApp

\* the member probabilities are aggregated as they come and once more in
\* the order perm
CallAggregateTwice ==
  /\ mode = "permute"
  /\ aggOut = << >>
  /\ \E perm \in Perms(Len(probsIn)) :
       aggOut' = << Aggregate(probsIn),
                    [perm |-> perm,
                     out |-> Aggregate([i \in 1..Len(probsIn) |-> probsIn[perm[i]]])] >>
  /\ UNCHANGED << mode, probsIn, heap, pipes, varsNoise, varsEns, varsApp >>

NextPerm == CallAggregateTwice

SpecPerm == InitPerm /\ [][NextPerm]_vars

\* ------------------------------------------------------------------------
\* inject_noise alone: a caller holds the vector heap[1], calls inject_noise
\* and may afterwards write into the arrays it was handed back
\* ------------------------------------------------------------------------

InitNoise ==
  /\ mode = "noise"
  /\ \E v \in NoiseVectors : heap = << v >>
  /\ pipes = << >>
  /\ noiseLog = << >>
  /\ callerRng = seed_rng(DefaultSeed)
  /\ IdleAgg
  /\ IdleEns
  /\ IdleApp

CallInjectNoise ==
  /\ mode = "noise"
  /\ Len(noiseLog) < MaxCalls
  /\ \E pct \in NoisePcts, given \in BOOLEAN :
       LET r == inject_noise(heap, 1, pct,
                             IF given THEN << callerRng >> ELSE << >>)
       IN  /\ heap' = r.heap
           /\ callerRng' = IF given THEN r.rng[1] ELSE callerRng
           /\ noiseLog' = Append(noiseLog,
                [xref |-> 1, x |-> heap[1], pct |-> pct, given |-> given,
                 ref |-> r.ref, out |-> r.heap[r.ref]])
  /\ UNCHANGED << mode, pipes, varsAgg, varsEns, varsApp >>

\* the caller changes one element of an array inject_noise returned
WriteResult ==
  /\ mode = "noise"
  /\ \E k \in 1..Len(noiseLog) :
       \E i \in 1..Len(heap[noiseLog[k].ref]) :
         /\ heap[noiseLog[k].ref][i] # Scribble
         /\ heap' = [heap EXCEPT ![noiseLog[k].ref][i] = Scribble]
  /\ UNCHANGED << mode, pipes, varsNoise, varsAgg, varsEns, varsApp >>

NextNoise == CallInjectNoise \/ WriteResult

SpecNoise == InitNoise /\ [][NextNoise]_vars

\* calls of inject_noise in a row
MaxRepeat == 3

\* the positive noise percentages of the repeated calls
RepeatPcts == { 20, 100 }

\* two vectors are at hand
InitRepeat ==
  /\ mode = "repeat"
  /\ \E v \in NoiseVectors, w \in NoiseVectors : v # w /\ heap = << v, w >>
  /\ pipes = << >>
  /\ noiseLog = << >>
  /\ callerRng = seed_rng(DefaultSeed)
  /\ IdleAgg
  /\ IdleEns
  /\ IdleApp

\* inject_noise(X, pct) or inject_noise(X, pct, rng) on either vector
CallInjectNoiseOn ==
  /\ mode = "repeat"
  /\ Len(noiseLog) < MaxRepeat
  /\ \E xref \in 1..2, pct \in RepeatPcts, given \in BOOLEAN :
       \E r \in { inject_noise(heap, xref, pct,
                               IF given THEN << callerRng >> ELSE << >>) } :
         /\ heap' = r.heap
         /\ callerRng' = IF given THEN r.rng[1] ELSE callerRng
         /\ noiseLog' = Append(noiseLog,
              [xref |-> xref, x |-> heap[xref], pct |-> pct, given |-> given,
               ref |-> r.ref, out |-> r.heap[r.ref]])
  /\ UNCHANGED << mode, pipes, varsAgg, varsEns, varsApp >>

NextRepeat == CallInjectNoiseOn

SpecRepeat == InitRepeat /\ [][NextRepeat]_vars

\* ------------------------------------------------------------------------
\* make_submodels_from and the ensemble's predictions alone: a fitted
\* baseline, one call of make_submodels_from with the arguments given or left
\* out, then the baseline's and the ensemble's probabilities on one input row
\* ------------------------------------------------------------------------

\* the largest n handed to make_submodels_from
MaxN == 5

\* the values of eps handed to make_submodels_from: -0.04, 0, 0.03, 0.04, 0.5
EpsValues == { -40000, 0, 30000, 40000, 500000 }

\* fitted baselines (coef_, intercept_, mean_, scale_): the first is the
\* one-feature model with weight 2, bias 0, mean 0 and scale 1
Baselines ==
  { [coef |-> << 2 * One >>, intercept |-> << 0 >>,
     mean |-> << 0 >>, scale |-> << One >>],
    [coef |-> << 500000 >>, intercept |-> << -One >>,
     mean |-> << One >>, scale |-> << 2 * One >>],
    [coef |-> << -1500000 >>, intercept |-> << 250000 >>,
     mean |-> << 0 >>, scale |-> << One >>],
    [coef |-> << One, -2 * One >>, intercept |-> << 500000 >>,
     mean |-> << 0, One >>, scale |-> << One, 500000 >>] }

\* the input rows tried, by number of features
Rows(d) ==
  IF d = 1 THEN { << One >>, << -One >>, << 0 >>, << 3 * One >> }
  ELSE { << One, One >>, << 0, 2 * One >> }

\* the heap after a baseline was fitted: classes_, coef_, intercept_, mean_, scale_
FittedHeap(b) == << << 0, 1 >>, b.coef, b.intercept, b.mean, b.scale >>

\* the pipeline whose arrays FittedHeap allocated
FittedPipe == [classes |-> 1, coef |-> 2, intercept |-> 3, mean |-> 4, scale |-> 5]

InitEns ==
  /\ mode = "ensemble"
  /\ \E b \in Baselines : heap = FittedHeap(b)
  /\ pipes = << FittedPipe >>
  /\ build = << >>
  /\ ensOut = << >>
  /\ IdleAgg
  /\ IdleNoise
  /\ IdleApp

CallMakeSubmodels ==
  /\ mode = "ensemble"
  /\ build = << >>
  /\ \E epsArg \in { << >> } \cup { << e >> : e \in EpsValues },
        nArg \in { << >> } \cup { << n >> : n \in 0..MaxN } :
       LET r == make_submodels_from(heap, pipes[1], epsArg, nArg)
       IN  /\ heap' = r.heap
           /\ build' = << [eps |-> epsArg, n |-> nArg, outcome |-> "returned",
                           subs |-> r.subs] >>
  /\ UNCHANGED << mode, pipes, ensOut, varsAgg, varsNoise, varsApp >>

CallPredict ==
  /\ mode = "ensemble"
  /\ build # << >>
  /\ ensOut = << >>
  /\ Len(build[1].subs) >= 1
  /\ \E x \in Rows(Len(heap[pipes[1].coef])) :
       ensOut' = << [x |-> x,
                     score |-> Score(heap, pipes[1], x),
                     p_lr |-> predict_proba(heap, pipes[1], x),
                     ens |-> ensemble_predict_proba(heap, build[1].subs, x)] >>
  /\ UNCHANGED << mode, heap, pipes, build, varsAgg, varsNoise, varsApp >>

NextEns == CallMakeSubmodels \/ CallPredict

SpecEns == InitEns /\ [][NextEns]_vars

\* the parameter arrays of a pipeline: coef_, intercept_, mean_, scale_
Params(pipe) == { pipe.coef, pipe.intercept, pipe.mean, pipe.scale }

\* the value a caller writes into a parameter array
Tamper == 7 * One

\* some array of the heap was written to by a caller
Tampered == \E r \in 1..Len(heap) : \E i \in 1..Len(heap[r]) : heap[r][i] = Tamper

\* a caller writes into one parameter array of the baseline after the build
MutateBaseline ==
  /\ mode = "ensemble"
  /\ build # << >>
  /\ ~Tampered
  /\ \E r \in Params(pipes[1]) : heap' = [heap EXCEPT ![r][1] = Tamper]
  /\ UNCHANGED << mode, pipes, varsEns, varsAgg, varsNoise, varsApp >>

\* a caller writes into one parameter array of one member
MutateMember ==
  /\ mode = "ensemble"
  /\ build # << >>
  /\ ~Tampered
  /\ \E k \in 1..Len(build[1].subs) :
       \E r \in Params(build[1].subs[k]) : heap' = [heap EXCEPT ![r][1] = Tamper]
  /\ UNCHANGED << mode, pipes, varsEns, varsAgg, varsNoise, varsApp >>

NextAlias == CallMakeSubmodels \/ CallPredict \/ MutateBaseline \/ MutateMember

SpecAlias == InitEns /\ [][NextAlias]_vars

\* ------------------------------------------------------------------------
\* The application: three fitted baselines, the session state, the analysis
\* handlers and the stability tab
\* ------------------------------------------------------------------------

\* analysis runs explored
MaxRuns == 4

Domains == { "Soil", "Health", "Water" }

\* the fitted baselines.  The fit itself (scikit-learn on synthetic data) is
\* not reproduced; each domain gets one fixed linear model with its scaler.
Fitted(d) ==
  CASE d = "Soil" ->
         [coef |-> << One, -2 * One >>, intercept |-> << 500000 >>,
          mean |-> << 0, One >>, scale |-> << One, 500000 >>]
    [] d = "Health" ->
         [coef |-> << 2 * One >>, intercept |-> << 0 >>,
          mean |-> << 0 >>, scale |-> << One >>]
    [] d = "Water" ->
         [coef |-> << -1500000 >>, intercept |-> << 250000 >>,
          mean |-> << 0 >>, scale |-> << One >>]

\* the heap once the three pipelines are fitted
AppHeap == FittedHeap(Fitted("Soil")) \o FittedHeap(Fitted("Health"))
             \o FittedHeap(Fitted("Water"))

PipeAt(o) ==
  [classes |-> o + 1, coef |-> o + 2, intercept |-> o + 3, mean |-> o + 4,
   scale |-> o + 5]

\* soil_pipe, health_pipe, water_pipe
AppPipes ==
  [d \in Domains |->
     CASE d = "Soil" -> PipeAt(0) [] d = "Health" -> PipeAt(5)
       [] d = "Water" -> PipeAt(10)]

\* widget values and noise slider positions tried, per tab
Readings(d) ==
  CASE d = "Soil" ->
         { [x0 |-> << 1500000, One >>, pct |-> 0],
           [x0 |-> << -500000, One >>, pct |-> 0],
           [x0 |-> << 0, 2 * One >>, pct |-> 20] }
    [] d = "Health" ->
         { [x0 |-> << One >>, pct |-> 0],
           [x0 |-> << -50 >>, pct |-> 0],
           [x0 |-> << -One >>, pct |-> 20] }
    [] d = "Water" ->
         { [x0 |-> << -One >>, pct |-> 0],
           [x0 |-> << One >>, pct |-> 0],
           [x0 |-> << -One >>, pct |-> 100] }

\* the probe rows of the stability tab, cut to the baselines' features
Probe(d) ==
  CASE d = "Soil" -> << 6500000, 40 * One >>
    [] d = "Health" -> << 12500000 >>
    [] d = "Water" -> << 7200000 >>

InitApp ==
  /\ mode = "app"
  /\ heap = AppHeap
  /\ pipes = AppPipes
  /\ results = [d \in Domains |-> << >>]
  /\ history = [d \in Domains |-> << >>]
  /\ last_stable = [d \in Domains |-> << >>]
  /\ runs = 0
  /\ lastRun = << >>
  /\ runLog = << >>
  /\ dash = << >>
  /\ stab = << >>
  /\ IdleAgg
  /\ IdleNoise
  /\ IdleEns

\* the first script run: no button is pressed yet, the dashboard and the
\* stability tab are drawn
RenderStabilityTab ==
  /\ mode = "app"
  /\ stab = << >>
  /\ LET soil   == StabilityOf(heap, pipes["Soil"], Probe("Soil"))
         health == StabilityOf(soil.heap, pipes["Health"], Probe("Health"))
         water  == StabilityOf(health.heap, pipes["Water"], Probe("Water"))
         s      == [d \in Domains |->
                      CASE d = "Soil" -> soil [] d = "Health" -> health
                        [] d = "Water" -> water]
     IN  /\ stab' = << [d \in Domains |->
                          [members |-> s[d].members, curve |-> s[d].curve]] >>
         /\ heap' = water.heap
  /\ dash' = << Dashboard(results) >>
  /\ UNCHANGED << mode, pipes, varsSession, runs, lastRun, runLog, varsAgg, varsNoise,
                  varsEns >>

\* a press of the Run button of tab d with the widgets at reading rd
RunAnalysis(d, rd) ==
  /\ mode = "app"
  /\ stab # << >>
  /\ runs < MaxRuns
  /\ \E a \in { Analysis(heap, pipes[d], d, rd.x0, rd.pct) } :
         /\ last_stable' =
               IF Decent(a.conf)
               THEN [last_stable EXCEPT ![d] =
                       << [inputs |-> a.x0, label |-> a.label,
                           confidence |-> a.conf] >>]
               ELSE last_stable
         /\ results' = StoreResult(results, d, a)
         /\ dash' = << Dashboard(StoreResult(results, d, a)) >>
         /\ history' = [history EXCEPT ![d] = LastThree(Append(@, a.conf))]
         /\ lastRun' = << [dom |-> a.dom, x0 |-> a.x0, pct |-> a.pct,
                           xn |-> a.xn, p_lr |-> a.p_lr, members |-> a.members,
                           ens |-> a.ens, label |-> a.label, conf |-> a.conf,
                           expl |-> a.expl,
                           shown |-> IF Decent(a.conf) THEN << >>
                                     ELSE last_stable[d]] >>
         /\ runLog' = Append(runLog,
                            [dom |-> d, x0 |-> rd.x0, pct |-> rd.pct,
                             label |-> a.label, conf |-> a.conf,
                             prob |-> a.ens.p])
         /\ heap' = a.heap
  /\ runs' = runs + 1
  /\ UNCHANGED << mode, pipes, stab, varsAgg, varsNoise, varsEns >>

RunSoilAnalysis == \E rd \in Readings("Soil") : RunAnalysis("Soil", rd)

RunHealthAnalysis == \E rd \in Readings("Health") : RunAnalysis("Health", rd)

RunWaterAnalysis == \E rd \in Readings("Water") : RunAnalysis("Water", rd)

NextApp ==
  \/ RenderStabilityTab
  \/ RunSoilAnalysis
  \/ RunHealthAnalysis
  \/ RunWaterAnalysis

SpecApp == InitApp /\ [][NextApp]_vars

\* every caller of make_submodels_from: the direct calls and the application
InitMembers == InitEns \/ InitApp

NextMembers == NextEns \/ NextApp

SpecMembers == InitMembers /\ [][NextMembers]_vars

\* ------------------------------------------------------------------------
\* Properties of inject_noise (SpecNoise)
\* ------------------------------------------------------------------------

\* C1: for every vector v and every percent <= 0, inject_noise(v, percent)
\* returns an array equal to v element for element that is a distinct object;
\* v is not modified by the call, nor by a later change to the result.
C1_NoiseNoOpCopy ==
  \A k \in 1..Len(noiseLog) :
    noiseLog[k].pct <= 0 =>
      /\ noiseLog[k].out = noiseLog[k].x
      /\ noiseLog[k].ref # noiseLog[k].xref
      /\ heap[noiseLog[k].xref] = noiseLog[k].x

\* C1 witness: inject_noise(v, 0) returned, the caller then changed the
\* returned array, and v still holds what it held at the call.
C1_Witness ==
  \E k \in 1..Len(noiseLog) :
    /\ noiseLog[k].pct = 0
    /\ heap[noiseLog[k].ref] # noiseLog[k].out
    /\ heap[noiseLog[k].xref] = noiseLog[k].x

\* ------------------------------------------------------------------------
\* Properties of the aggregation (SpecAgg)
\* ------------------------------------------------------------------------

Aggregated == aggOut # << >>

AllEqual(probs) == \A i \in 1..Len(probs) : probs[i] = probs[1]

RECURSIVE MinSeq(_)
MinSeq(s) ==
  IF Len(s) = 1 THEN s[1]
  ELSE LET m == MinSeq(Tail(s)) IN IF s[1] < m THEN s[1] ELSE m

RECURSIVE MaxSeq(_)
MaxSeq(s) ==
  IF Len(s) = 1 THEN s[1]
  ELSE LET m == MaxSeq(Tail(s)) IN IF s[1] > m THEN s[1] ELSE m

\* n^3 * One^2 * (the population variance of probs), computed from the definition
CubeVar(probs) ==
  WSumSeq([i \in 1..Len(probs) |->
     WMul(Abs(Len(probs) * probs[i] - SumSeq(probs)),
          Abs(Len(probs) * probs[i] - SumSeq(probs)))])

\* C2: the regime is selected by the population variance of the member
\* probabilities: variance > 0.02 gives every weight 1/count; variance <= 0.02
\* (0.02 itself included) gives the Gaussian-kernel values
\* exp(-(p_i - mean)^2 / (2*0.0025)) divided by their sum.
C2_RegimeByVariance ==
  Aggregated =>
    LET r == aggOut[1]
        n == Len(probsIn)
        kern == [i \in 1..n |-> Centered(probsIn, i)]
    IN  IF WLt(<< n * n * n * One, 0 >>, WScale(CubeVar(probsIn), 50))
        THEN \A i \in 1..n : r.w.num[i] * n = r.w.den
        ELSE \A i \in 1..n :
               WMul(r.w.num[i], SumSeq(kern)) = WMul(kern[i], r.w.den)

\* C2 witness: three members whose variance is exactly 0.02 were aggregated
\* and received the (non-uniform) kernel weights.
C2_Witness ==
  /\ Aggregated
  /\ Len(probsIn) = 3
  /\ WScale(CubeVar(probsIn), 50) = << 27 * One, 0 >>
  /\ \E i, j \in 1..3 : aggOut[1].w.num[i] # aggOut[1].w.num[j]

\* C3: in both regimes the weights are non-negative and sum to 1, the variance
\* is >= 0, and the combined probability lies between the smallest and the
\* largest member probability, hence in [0, 1].
C3_ConvexCombination ==
  Aggregated =>
    LET r == aggOut[1]
        n == Len(probsIn)
    IN  /\ r.w.den > 0
        /\ \A i \in 1..n : r.w.num[i] >= 0
        /\ SumSeq(r.w.num) = r.w.den
        /\ r.var.den > 0 /\ r.var.num[1] >= 0 /\ r.var.num[2] >= 0
        /\ WLe(WMul(MinSeq(probsIn), r.w.den), r.p.num)
        /\ WLe(r.p.num, WMul(MaxSeq(probsIn), r.w.den))
        /\ WLe(<< 0, 0 >>, r.p.num)
        /\ WLe(r.p.num, WMul(One, r.w.den))

\* C3 witness: distinct member probabilities were aggregated with the kernel
\* weights and the result lies strictly inside their range.
C3_Witness ==
  /\ Aggregated
  /\ ~ HighVar(aggOut[1].var)
  /\ WLt(WMul(MinSeq(probsIn), aggOut[1].w.den), aggOut[1].p.num)
  /\ WLt(aggOut[1].p.num, WMul(MaxSeq(probsIn), aggOut[1].w.den))

Built == build # << >>

\* the eps and n a call works with
EpsOf(b) == IF b.eps = << >> THEN DefaultEps ELSE b.eps[1]

NOf(b) == IF b.n = << >> THEN DefaultN ELSE b.n[1]

\* member k (counted from 0) of the built ensemble
Member(k) == build[1].subs[k + 1]

\* member k carries the baseline's coefficients and intercept times f / One
HasFactor(k, f) ==
  /\ heap[Member(k).coef] =
       [j \in 1..Len(heap[pipes[1].coef]) |-> SMulFix(heap[pipes[1].coef][j], f)]
  /\ heap[Member(k).intercept] = << SMulFix(heap[pipes[1].intercept][1], f) >>

SameAsBaseline(k) ==
  /\ heap[Member(k).coef] = heap[pipes[1].coef]
  /\ heap[Member(k).intercept] = heap[pipes[1].intercept]

SameScaler(k) ==
  /\ heap[Member(k).mean] = heap[pipes[1].mean]
  /\ heap[Member(k).scale] = heap[pipes[1].scale]

\* C5: for count = 3 and any eps > 0 there are three members in increasing
\* order of k (factors 1-eps, 1, 1+eps); the middle one has exactly the
\* baseline's weights and bias, and every member has the baseline's
\* standardization mean and scale.
C5_CentreMemberIsBaseline ==
  (Built /\ NOf(build[1]) = 3 /\ EpsOf(build[1]) > 0) =>
    /\ Len(build[1].subs) = 3
    /\ \A k \in 0..2 : HasFactor(k, One + (k - 1) * EpsOf(build[1]))
    /\ SameAsBaseline(1)
    /\ \A k \in 0..2 : SameScaler(k)

\* C5 witness: three members were built with eps = 0.04 from a baseline with
\* a non-zero weight, and the outer members differ from the baseline.
C5_Witness ==
  /\ Built
  /\ build[1].n = << 3 >>
  /\ build[1].eps = << 40000 >>
  /\ Len(build[1].subs) = 3
  /\ heap[Member(0).coef] # heap[pipes[1].coef]
  /\ heap[Member(2).coef] # heap[pipes[1].coef]
  /\ heap[Member(0).coef] # heap[Member(2).coef]

\* C6 (as claimed): for every odd count >= 1 and eps > 0, member k has the
\* factor 1 + (k - (count-1)/2) * eps, so the member at (count-1)/2 is the
\* baseline.
C6_SymmetricForOddCount ==
  (Built /\ NOf(build[1]) >= 1 /\ NOf(build[1]) % 2 = 1 /\ EpsOf(build[1]) > 0) =>
    /\ Len(build[1].subs) = NOf(build[1])
    /\ \A k \in 0..(NOf(build[1]) - 1) :
         HasFactor(k, One + (k - (NOf(build[1]) - 1) \div 2) * EpsOf(build[1]))
    /\ SameAsBaseline((NOf(build[1]) - 1) \div 2)

\* C7 (as claimed): a call with eps <= 0, an even count or a count < 1 ends
\* in an invalid-configuration error and returns no list of members.
C7_InvalidConfigurationRejected ==
  (Built /\ (EpsOf(build[1]) <= 0 \/ NOf(build[1]) % 2 = 0 \/ NOf(build[1]) < 1)) =>
    build[1].outcome = "error"

Predicted == ensOut # << >>

\* C10: for a single-feature baseline with a positive coefficient and
\* count = 3, the middle member's probability equals the baseline's on the
\* same input and lies between those of member 0 (factor 1-eps) and member 2
\* (factor 1+eps): increasing with k when the baseline's linear score is
\* positive, decreasing when it is negative.
C10_OuterMembersBracketBaseline ==
  (/\ Predicted
   /\ Len(heap[pipes[1].coef]) = 1
   /\ heap[pipes[1].coef][1] > 0
   /\ NOf(build[1]) = 3
   /\ EpsOf(build[1]) > 0) =>
    LET o == ensOut[1]
        p == ensOut[1].ens.probs
    IN  /\ p[2] = o.p_lr
        /\ o.score >= 0 => (p[1] <= p[2] /\ p[2] <= p[3])
        /\ o.score <= 0 => (p[1] >= p[2] /\ p[2] >= p[3])

\* C10 witness: weight 2, bias 0, mean 0, scale 1, input 1.0, eps = 0.04:
\* the members' probabilities are about 0.8722 < 0.8808 < 0.8890 and the
\* middle one is the baseline's.
C10_Witness ==
  /\ Predicted
  /\ heap[pipes[1].coef] = << 2 * One >>
  /\ build[1].eps = << 40000 >>
  /\ NOf(build[1]) = 3
  /\ ensOut[1].x = << One >>
  /\ ensOut[1].score = 2 * One
  /\ ensOut[1].ens.probs[1] \in 872100..872200
  /\ ensOut[1].ens.probs[2] \in 880750..880850
  /\ ensOut[1].ens.probs[3] \in 888900..889000
  /\ ensOut[1].p_lr = ensOut[1].ens.probs[2]

\* ------------------------------------------------------------------------
\* Properties of the callers of make_submodels_from (SpecMembers) and of the
\* analysis handlers (SpecApp)
\* ------------------------------------------------------------------------

\* the members are three, member k being the baseline's weights and bias
\* times 1 + (k - 2) * eps
ThreeMembers(members, base, eps) ==
  /\ Len(members) = 3
  /\ \A k \in 1..3 :
       /\ members[k].coef =
            [j \in 1..Len(base.coef) |-> SMulFix(base.coef[j], One + (k - 2) * eps)]
       /\ members[k].intercept =
            << SMulFix(base.intercept[1], One + (k - 2) * eps) >>

BuiltMembers ==
  [k \in 1..Len(build[1].subs) |-> PipeValues(heap, build[1].subs[k])]

\* make_submodels_from(base_lr) was called with no eps and no n
DefaultCall ==
  mode = "ensemble" /\ Built /\ build[1].eps = << >> /\ build[1].n = << >>

\* the latest analysis run and the stability tab worked with three members
\* at eps = 0.04 of the domain's own baseline
CallSitesUseThree ==
  /\ lastRun # << >> =>
       ThreeMembers(lastRun[1].members,
                    PipeValues(heap, pipes[lastRun[1].dom]), 40000)
  /\ stab # << >> =>
       \A d \in Domains :
         ThreeMembers(stab[1][d].members, PipeValues(heap, pipes[d]), 40000)

\* C8 as stated: a build with only the baseline returns three members with
\* factors 0.96, 1.0 and 1.04, and every analysis run and stability curve of
\* every domain uses three members with eps = 0.04.
C8_DefaultEpsIsFourPercent ==
  /\ DefaultCall => ThreeMembers(BuiltMembers, PipeValues(heap, pipes[1]), 40000)
  /\ CallSitesUseThree

\* What the code does where C8 fails: a build with only the baseline uses
\* eps = 0.03 and n = 3 and returns three members with factors 0.97, 1.0 and
\* 1.03; every analysis run and stability curve of every domain passes
\* eps = 0.04 with the default n and uses factors 0.96, 1.0 and 1.04.
DefaultEpsIsThreePercent ==
  /\ DefaultCall => ThreeMembers(BuiltMembers, PipeValues(heap, pipes[1]), 30000)
  /\ CallSitesUseThree

\* a build with only the baseline returned, and its first member is the
\* baseline times 0.97
DefaultCallReached ==
  /\ DefaultCall
  /\ Len(build[1].subs) = 3
  /\ BuiltMembers[1].coef # heap[pipes[1].coef]
  /\ BuiltMembers[1].coef =
       [j \in 1..Len(heap[pipes[1].coef]) |-> SMulFix(heap[pipes[1].coef][j], 970000)]

\* the latest run's combined probability p satisfies 2 * p >= 1
AtLeastHalf(p) == WLe(<< p.den, 0 >>, WAdd(p.num, p.num))

\* c hundredths of a percent is 10^4 * p rounded to the nearest integer, a
\* tie going to the even one
IsRounded(c, p) ==
  LET lo == WMul(IF c = 0 THEN 0 ELSE c * 100 - 50, p.den)
      hi == WMul(c * 100 + 50, p.den)
  IN  /\ WLe(lo, p.num) \/ c = 0
      /\ WLe(p.num, hi)
      /\ (p.num = hi \/ (p.num = lo /\ c > 0)) => c % 2 = 0

\* C9: in every analysis run of every domain the label is the domain's
\* positive label iff the combined probability is >= 0.5 and the negative one
\* otherwise, and the confidence is the combined probability times 100
\* rounded to 2 decimals, within [0, 100]; results[d] holds that label and
\* confidence.
C9_LabelAndConfidence ==
  lastRun # << >> =>
    LET r == lastRun[1]
    IN  /\ r.label = (IF AtLeastHalf(r.ens.p) THEN PosLabel(r.dom)
                      ELSE NegLabel(r.dom))
        /\ IsRounded(r.conf, r.ens.p)
        /\ r.conf \in 0..(100 * 100)
        /\ results[r.dom] # << >>
        /\ results[r.dom][1].label = r.label
        /\ results[r.dom][1].confidence = r.conf

\* C9 witness: a run whose combined probability is exactly 0.5 reported the
\* positive label with confidence 50.00.
C9_Witness ==
  /\ lastRun # << >>
  /\ WAdd(lastRun[1].ens.p.num, lastRun[1].ens.p.num) = << lastRun[1].ens.p.den, 0 >>
  /\ lastRun[1].label = PosLabel(lastRun[1].dom)
  /\ lastRun[1].conf = 5000

\* ------------------------------------------------------------------------
\* Ownership of the parameter arrays (SpecAlias)
\* ------------------------------------------------------------------------

\* pipeline number q of a build: 0 the baseline, k >= 1 member k
PipeNo(q) == IF q = 0 THEN pipes[1] ELSE build[1].subs[q]

ParamValues(h, pipe) ==
  << h[pipe.coef], h[pipe.intercept], h[pipe.mean], h[pipe.scale] >>

\* C11: once the ensemble is built, a write into a parameter array (weights,
\* bias, mean or scale) of the baseline or of one member is seen by that one
\* pipeline only: the parameters of every other pipeline, and its
\* probability on every fixed input, are what they were before the write.
C11_MembersOwnTheirParameters ==
  [][(mode = "ensemble" /\ build # << >> /\ build' = build /\ heap' # heap) =>
       \E owner \in 0..Len(build[1].subs) :
         \A q \in 0..Len(build[1].subs) :
           q # owner =>
             /\ ParamValues(heap', PipeNo(q)) = ParamValues(heap, PipeNo(q))
             /\ \A x \in Rows(Len(heap[pipes[1].coef])) :
                  predict_proba(heap', PipeNo(q), x) = predict_proba(heap, PipeNo(q), x)]_vars

\* C11 witness: three members were built, the baseline's mean was then
\* written to, and no member's mean holds the written value.
C11_Witness ==
  /\ mode = "ensemble"
  /\ build # << >>
  /\ Len(build[1].subs) = 3
  /\ heap[pipes[1].mean][1] = Tamper
  /\ \A k \in 1..3 : heap[build[1].subs[k].mean][1] # Tamper

\* ------------------------------------------------------------------------
\* Reproducibility of inject_noise without a generator (SpecRepeat)
\* ------------------------------------------------------------------------

\* C12: any two calls of inject_noise without a generator, on the same
\* vector and with the same percent > 0, return the same values, whatever
\* calls were made in between.
C12_DefaultNoiseReproducible ==
  \A j \in 1..Len(noiseLog) : \A k \in 1..Len(noiseLog) :
    (/\ mode = "repeat"
     /\ ~noiseLog[j].given /\ ~noiseLog[k].given
     /\ noiseLog[j].x = noiseLog[k].x
     /\ noiseLog[j].pct = noiseLog[k].pct
     /\ noiseLog[j].pct > 0) => noiseLog[j].out = noiseLog[k].out

\* C12 witness: the first and the third call are the same call without a
\* generator, the call in between is on the other vector with another
\* percent, and the two results are equal and different from the vector.
C12_Witness ==
  /\ mode = "repeat"
  /\ Len(noiseLog) = 3
  /\ ~noiseLog[1].given /\ ~noiseLog[3].given /\ ~noiseLog[2].given
  /\ noiseLog[1].xref = noiseLog[3].xref /\ noiseLog[1].pct = noiseLog[3].pct
  /\ noiseLog[2].xref # noiseLog[1].xref /\ noiseLog[2].pct # noiseLog[1].pct
  /\ noiseLog[1].out = noiseLog[3].out
  /\ noiseLog[1].out # noiseLog[1].x

\* ------------------------------------------------------------------------
\* Order of the members in the aggregation (SpecPerm)
\* ------------------------------------------------------------------------

\* p and q are the same fraction
SameValue(p, q) == p.num = q.num /\ p.den = q.den

Dist(probs, i) == Abs(Len(probs) * probs[i] - SumSeq(probs))

\* the variance of the member probabilities is <= 0.02
LowVar(probs) ==
  ~ WLt(<< Len(probs) * Len(probs) * Len(probs) * One, 0 >>,
        WScale(CubeVar(probs), 50))

\* a member strictly closer to the mean never has the smaller weight, and a
\* member at the smallest distance has the largest weight
WeightsFollowDistance(probs, w) ==
  /\ \A i, j \in 1..Len(probs) :
       Dist(probs, i) < Dist(probs, j) => w.num[i] >= w.num[j]
  /\ \A i \in 1..Len(probs) :
       (\A j \in 1..Len(probs) : Dist(probs, i) <= Dist(probs, j)) =>
         \A j \in 1..Len(probs) : w.num[i] >= w.num[j]

Uniform(w) == \A i, j \in 1..Len(w.num) : w.num[i] = w.num[j]

\* C14 as stated: with variance <= 0.02 and member probabilities not all
\* equal the weights are non-uniform, a member strictly closer to the mean
\* never has a smaller weight than one farther away, and the closest member
\* has the largest weight.
C14_NonUniformByDistance ==
  (mode = "aggregate" /\ Aggregated /\ LowVar(probsIn) /\ ~AllEqual(probsIn)) =>
    /\ ~Uniform(aggOut[1].w)
    /\ WeightsFollowDistance(probsIn, aggOut[1].w)

\* C14 amended: with variance <= 0.02 and member probabilities not all
\* equal, a member strictly closer to the mean never has a smaller weight
\* than one farther away and the closest member has the largest weight;
\* members equally far from the mean have equal weights, so two members
\* always have weight 1/2 each, and the weights are non-uniform when some
\* member is farther from the mean than another.
C14_WeightsByDistance ==
  (mode = "aggregate" /\ Aggregated /\ LowVar(probsIn) /\ ~AllEqual(probsIn)) =>
    /\ WeightsFollowDistance(probsIn, aggOut[1].w)
    /\ \A i, j \in 1..Len(probsIn) :
         Dist(probsIn, i) = Dist(probsIn, j) => aggOut[1].w.num[i] = aggOut[1].w.num[j]
    /\ Len(probsIn) = 2 =>
         /\ Uniform(aggOut[1].w)
         /\ 2 * aggOut[1].w.num[1] = aggOut[1].w.den
    /\ (\E i, j \in 1..Len(probsIn) : Dist(probsIn, i) < Dist(probsIn, j)) =>
         ~Uniform(aggOut[1].w)

\* C14 witness: three members at three different distances from the mean
\* were aggregated in the kernel regime and their weights decrease with the
\* distance.
C14_Witness ==
  /\ mode = "aggregate"
  /\ Aggregated
  /\ Len(probsIn) = 3
  /\ LowVar(probsIn)
  /\ Dist(probsIn, 1) < Dist(probsIn, 2)
  /\ Dist(probsIn, 2) < Dist(probsIn, 3)
  /\ aggOut[1].w.num[1] > aggOut[1].w.num[2]
  /\ aggOut[1].w.num[2] > aggOut[1].w.num[3]

\* ------------------------------------------------------------------------
\* The fitted baselines and the session state (SpecApp)
\* ------------------------------------------------------------------------

\* the arrays of domain d's pipeline hold what the fit put there
BaselineAsFitted(d) ==
  /\ heap[pipes[d].coef] = Fitted(d).coef
  /\ heap[pipes[d].intercept] = Fitted(d).intercept
  /\ heap[pipes[d].mean] = Fitted(d).mean
  /\ heap[pipes[d].scale] = Fitted(d).scale
  /\ heap[pipes[d].classes] = << 0, 1 >>

\* the members are derived from what the fit of domain d produced: the
\* scaler is the fitted one, the middle member is the fitted model
DerivedFrom(members, d) ==
  /\ ThreeMembers(members, Fitted(d), 40000)
  /\ members[2].coef = Fitted(d).coef
  /\ members[2].intercept = Fitted(d).intercept
  /\ \A k \in 1..Len(members) :
       /\ members[k].mean = Fitted(d).mean
       /\ members[k].scale = Fitted(d).scale
       /\ members[k].classes = << 0, 1 >>

\* C15: in every state the application reaches, each domain's baseline has
\* the weights, bias, class labels and standardization mean and scale of its
\* fit, the three pipelines are the ones fitted, and the ensemble of the
\* latest run and those of the stability tab are derived from the baseline
\* of their own domain.
C15_BaselinesReadOnly ==
  mode = "app" =>
    /\ pipes = AppPipes
    /\ \A d \in Domains : BaselineAsFitted(d)
    /\ lastRun # << >> => DerivedFrom(lastRun[1].members, lastRun[1].dom)
    /\ stab # << >> => \A d \in Domains : DerivedFrom(stab[1][d].members, d)

\* C15 witness: the stability tab was drawn and every domain was analysed,
\* the latest run being the fourth.
C15_Witness ==
  /\ mode = "app"
  /\ stab # << >>
  /\ runs >= 4
  /\ \A d \in Domains : results[d] # << >>
  /\ lastRun[1].members[1].coef # Fitted(lastRun[1].dom).coef

\* the runs of domain d so far, oldest first
RunsOf(d) == SelectSeq(runLog, LAMBDA e : e.dom = d)

\* C16: for each domain d the history has min(3, number of runs of d)
\* entries, never more than 3, and they are the confidences of the most
\* recent runs of d, oldest first, the latest run's confidence last.
C16_HistoryKeepsLastThree ==
  mode = "app" =>
    \A d \in Domains :
      LET rs == RunsOf(d)
          n  == Len(rs)
          m  == IF n < 3 THEN n ELSE 3
      IN  /\ Len(history[d]) = m
          /\ Len(history[d]) <= 3
          /\ \A i \in 1..m : history[d][i] = rs[n - m + i].conf
          /\ n > 0 => history[d][m] = rs[n].conf

\* C16 witness: a domain was run four times, the first two runs with
\* different confidences, and its history holds the last three.
C16_Witness ==
  /\ mode = "app"
  /\ \E d \in Domains :
       /\ Len(RunsOf(d)) = 4
       /\ RunsOf(d)[1].conf # RunsOf(d)[2].conf
       /\ RunsOf(d)[1].conf # RunsOf(d)[4].conf
       /\ history[d] = << RunsOf(d)[2].conf, RunsOf(d)[3].conf, RunsOf(d)[4].conf >>

\* the runs of domain d whose confidence was >= 50
DecentRunsOf(d) == SelectSeq(RunsOf(d), LAMBDA e : e.conf >= 5000)

\* C17: last_stable[d] is None until a run of d reaches confidence >= 50
\* and from then on holds the un-noised inputs, label and confidence of the
\* latest such run, runs with confidence < 50 leaving it as it is; a run
\* with confidence < 50 shows the stored record if there is one.
C17_LastStableIsLatestDecentRun ==
  mode = "app" =>
    /\ \A d \in Domains :
         LET good == DecentRunsOf(d)
         IN  /\ good = << >> => last_stable[d] = << >>
             /\ good # << >> =>
                  last_stable[d] =
                    << [inputs |-> good[Len(good)].x0,
                        label |-> good[Len(good)].label,
                        confidence |-> good[Len(good)].conf] >>
             /\ last_stable[d] # << >> => last_stable[d][1].confidence >= 5000
    /\ lastRun # << >> =>
         lastRun[1].shown = (IF lastRun[1].conf < 5000
                             THEN last_stable[lastRun[1].dom] ELSE << >>)

\* C17 witness: a run with noise reached confidence >= 50, a later run of
\* the same domain stayed below 50, and the record of the first, with its
\* un-noised inputs, is still stored and was shown.
C17_Witness ==
  /\ mode = "app"
  /\ lastRun # << >>
  /\ lastRun[1].conf < 5000
  /\ lastRun[1].shown # << >>
  /\ LET d == lastRun[1].dom
     IN  /\ Len(RunsOf(d)) = 2
         /\ RunsOf(d)[1].pct > 0
         /\ RunsOf(d)[1].conf >= 5000
         /\ last_stable[d][1].inputs = RunsOf(d)[1].x0
         /\ last_stable[d][1].confidence = RunsOf(d)[1].conf

\* C18: an analysis run of domain d leaves results, history and last_stable
\* of the two other domains as they were, and results[d] then holds that
\* run's label, combined probability and confidence; results[d] is None
\* exactly while d has never been run.
C18_RunTouchesOwnDomainOnly ==
  [][(mode = "app" /\ runs' = runs + 1) =>
       LET d == lastRun'[1].dom
       IN  /\ \A e \in Domains \ { d } :
                /\ results'[e] = results[e]
                /\ history'[e] = history[e]
                /\ last_stable'[e] = last_stable[e]
           /\ results'[d] = << [confidence |-> lastRun'[1].conf,
                                prob |-> lastRun'[1].ens.p,
                                label |-> lastRun'[1].label] >>
           /\ \A e \in Domains :
                (results'[e] = << >>) <=>
                  (\A k \in 1..Len(runLog') : runLog'[k].dom # e)]_vars

\* C18 witness: Soil was run after Health, Health's result is still the one
\* of its own run, and Water, never run, has none.
C18_Witness ==
  /\ mode = "app"
  /\ Len(runLog) = 2
  /\ runLog[1].dom = "Health"
  /\ runLog[2].dom = "Soil"
  /\ results["Health"] = << [confidence |-> runLog[1].conf, prob |-> runLog[1].prob,
                             label |-> runLog[1].label] >>
  /\ results["Soil"] # results["Health"]
  /\ results["Water"] = << >>

\* C19 as stated: in every run the label is the positive one exactly when
\* the rounded confidence is >= 50, every record in last_stable carries the
\* positive label, and every stored result with the negative label has
\* confidence < 50.
C19_PositiveIffConfidenceAtLeast50 ==
  mode = "app" =>
    /\ \A k \in 1..Len(runLog) :
         (runLog[k].label = PosLabel(runLog[k].dom)) <=> (runLog[k].conf >= 5000)
    /\ \A d \in Domains :
         /\ last_stable[d] # << >> => last_stable[d][1].label = PosLabel(d)
         /\ (results[d] # << >> /\ results[d][1].label = NegLabel(d)) =>
              results[d][1].confidence < 5000

\* C19 amended: in every run a positive label comes with a rounded
\* confidence >= 50 and a confidence above 50.00 with the positive label,
\* while a confidence of exactly 50.00 comes with either label (the negative
\* one when the combined probability is below 0.5 and rounds up to 50.00);
\* last_stable[d] is written exactly on the runs with confidence >= 50,
\* which include every positive run; a record in last_stable carries the
\* positive label or has confidence exactly 50.00, and a stored result with
\* the negative label has confidence <= 50.00.
C19_PositiveImpliesConfidenceAtLeast50 ==
  mode = "app" =>
    /\ \A k \in 1..Len(runLog) :
         LET e == runLog[k]
         IN  /\ e.label \in { PosLabel(e.dom), NegLabel(e.dom) }
             /\ e.label = PosLabel(e.dom) => e.conf >= 5000
             /\ e.conf > 5000 => e.label = PosLabel(e.dom)
             /\ (e.conf = 5000 /\ e.label = NegLabel(e.dom)) =>
                  ~AtLeastHalf(e.prob)
    /\ \A d \in Domains :
         /\ (last_stable[d] # << >>) <=>
              (\E k \in 1..Len(runLog) : runLog[k].dom = d /\ runLog[k].conf >= 5000)
         /\ last_stable[d] # << >> =>
              \/ last_stable[d][1].label = PosLabel(d)
              \/ last_stable[d][1].confidence = 5000
         /\ (results[d] # << >> /\ results[d][1].label = NegLabel(d)) =>
              results[d][1].confidence <= 5000

\* C19 witness: a run with combined probability below 0.5 was reported with
\* the negative label and confidence 50.00 and is stored in last_stable.
C19_Witness ==
  /\ mode = "app"
  /\ lastRun # << >>
  /\ ~AtLeastHalf(lastRun[1].ens.p)
  /\ lastRun[1].label = NegLabel(lastRun[1].dom)
  /\ lastRun[1].conf = 5000
  /\ last_stable[lastRun[1].dom] =
       << [inputs |-> lastRun[1].x0, label |-> lastRun[1].label, confidence |-> 5000] >>

\* the latest confidence of domain d, 0 while d was never run
LatestConf(d) == IF RunsOf(d) = << >> THEN 0 ELSE RunsOf(d)[Len(RunsOf(d))].conf

\* the domains run so far
DomainsRun == { d \in Domains : RunsOf(d) # << >> }

\* C20: the dashboard's overall confidence is the sum of the three domains'
\* latest confidences (0 for a domain never run) divided by 3 and rounded to
\* one decimal; the status is Excellent iff overall >= 80, Moderate iff
\* 50 <= overall < 80 and Needs Work otherwise; with at most one domain run
\* it is Needs Work, and it is Excellent only with all three run.
C20_DashboardOverall ==
  (mode = "app" /\ dash # << >>) =>
    LET sum == LatestConf("Soil") + LatestConf("Health") + LatestConf("Water")
        o   == dash[1].overall
    IN  /\ 30 * o - 15 <= sum /\ sum <= 30 * o + 15
        /\ (dash[1].status = "Excellent") <=> (o >= 800)
        /\ (dash[1].status = "Moderate") <=> (o >= 500 /\ o < 800)
        /\ (dash[1].status = "Needs Work") <=> (o < 500)
        /\ Cardinality(DomainsRun) <= 1 => dash[1].status = "Needs Work"
        /\ dash[1].status = "Excellent" => DomainsRun = Domains

\* C20 witness: all three domains were run and the dashboard shows
\* Excellent.
C20_Witness ==
  /\ mode = "app"
  /\ dash # << >>
  /\ DomainsRun = Domains
  /\ dash[1].status = "Excellent"
  /\ dash[1].overall >= 800

====
